---- MODULE Spec2Model ----
(***************************************************************************)
(* Business-Plan-Creator: the retrying internet_search tool of script.py   *)
(* and the chat endpoints of api_server.py, as a state machine.            *)
(*                                                                         *)
(* Time is counted in whole time-units: every backoff value the code can   *)
(* reach (1.0, 2.0, 4.0, ...) is an integer that a float holds exactly.    *)
(***************************************************************************)
EXTENDS Integers, Sequences, FiniteSets, TLC

VARIABLES
    \* ---- internet_search, one activation per caller thread ----
    pc,             \* thread -> "idle" | "try" | "sleep" | "done" | "raised"
    search_type,    \* thread -> argument search_type of the running call
    max_results,    \* thread -> argument max_results of the running call
    attempt,        \* thread -> loop variable attempt (0-based)
    backoff,        \* thread -> local backoff
    sleep_time,     \* thread -> local sleep_time of the pending time.sleep
    result,         \* thread -> value returned by the call
    raw_results,    \* thread -> raw_results of the attempt that returned
    providerCalls,  \* thread -> number of ddgs.text / ddgs.news calls made
    method,         \* thread -> provider method of the last provider call
    failures,       \* thread -> number of attempts whose exception was caught
    caught,         \* thread -> the exception classes caught so far in the call
    provided,       \* thread -> what the provider call of the current iteration did
    waits,          \* thread -> the sleeps completed, in order
    \* ---- api_server ----
    agents_dir,     \* the agents directory: whether it exists, its *.md files
    handler,        \* the request being served: "none" | "agents" | "chat" | "stream"
    http,           \* response of the synchronous handler that ran last
    diagnostics,    \* files reported by the load_agent_specs call made last
    request,        \* arguments of the request being served
    created,        \* agent built for the request: Null, "orchestrator" or a spec name
    invoked,        \* whether agent.invoke was called for the request
    gpc,            \* position of the generator of chat_stream
    frames          \* the frames the generator has yielded, in order

searchVars == <<pc, search_type, max_results, attempt, backoff, sleep_time,
                result, raw_results, providerCalls, method, failures, caught,
                provided, waits>>

apiVars == <<agents_dir, handler, http, diagnostics, request, created, invoked,
             gpc, frames>>

vars == <<searchVars, apiVars>>

\* ------------------------------------------------------------------ bounds
NumThreads == 2
MaxResults == 2

Threads == 1..NumThreads

\* --------------------------------------------------------- program constants
max_retries == 5
initial_backoff == 1
max_backoff == 60

NO_RESULTS == "No results found for this query."
NO_VALID_RESULTS == "No valid results found after quality filtering."
FALLTHROUGH == "Search failed after all retries."

ExhaustedError(n) ==
    "Error: Could not complete search after " \o ToString(n) \o " attempts."

\* ------------------------------------------------------------------ helpers
Min(a, b) == IF a < b THEN a ELSE b

RECURSIVE SumSeq(_)
SumSeq(s) == IF s = <<>> THEN 0 ELSE Head(s) + SumSeq(Tail(s))

SeqUpTo(S, n) == UNION {[1..k -> S] : k \in 0..n}

\* ------------------------------------------------------- provider records
\* A raw record is what the provider hands back for one hit: normally a
\* mapping (dict) with some of the keys title, href, url, body, description;
\* mapping = FALSE stands for a value without a .get method.
Mapping(f) == [mapping |-> TRUE, fields |-> f]
NotAMapping == [mapping |-> FALSE, fields |-> <<>>]

TextHit     == Mapping([title |-> "t1", href |-> "h1", body |-> "b1"])
NewsHit     == Mapping([title |-> "t2", url |-> "u2", body |-> "b2"])
TitleOnly   == Mapping([title |-> "t3", body |-> "b3"])
LinkOnly    == Mapping([href |-> "h4", body |-> "b4"])
EmptyHit    == Mapping(<<>>)
EmptyHref   == Mapping([title |-> "t6", href |-> "", url |-> "u6", description |-> "d6"])
DescHit     == Mapping([title |-> "t7", href |-> "h7", description |-> "d7"])
EmptyTitle  == Mapping([title |-> "", href |-> "h8", body |-> "b8"])

RawRecords == {TextHit, NewsHit, TitleOnly, LinkOnly, EmptyHit, EmptyHref,
               DescHit, EmptyTitle, NotAMapping}

\* dict.get(key, default)
Get(r, key, default) == IF key \in DOMAIN r.fields THEN r.fields[key] ELSE default

\* None
Null == "<None>"

\* Python truthiness of a str or None
Truthy(v) == v /= "" /\ v /= Null

\* ---------------------------------------------------------- internet_search
title_of(r) == Get(r, "title", "")
url_of(r) == Get(r, "href", Get(r, "url", ""))
snippet_of(r) == Get(r, "body", Get(r, "description", ""))

KeepsAnyBug(r) == Truthy(title_of(r)) \/ Truthy(url_of(r))

\* if title and url:
Keeps(r) == Truthy(title_of(r)) /\ Truthy(url_of(r))

\* f"{i}. **{title}**\n   URL: {url}\n   {snippet}\n"
Entry(i, r) == [num |-> i, title |-> title_of(r), url |-> url_of(r),
                snippet |-> snippet_of(r)]

\* for i, r in enumerate(raw_results, 1): ...  (r.get on a non-mapping raises)
RECURSIVE FormatLoop(_, _, _)
FormatLoop(raw, i, results) ==
    IF i > Len(raw) THEN [raised |-> FALSE, exc |-> "", results |-> results]
    ELSE IF ~raw[i].mapping
         THEN [raised |-> TRUE, exc |-> "AttributeError", results |-> <<>>]
         ELSE FormatLoop(raw, i + 1,
                         IF Keeps(raw[i]) THEN Append(results, Entry(i, raw[i]))
                         ELSE results)

\* values of the function: a str, kept with the entries it is joined from
Sentinel(text) == [kind |-> "sentinel", text |-> text, entries |-> <<>>]
Block(entries) == [kind |-> "block", text |-> "", entries |-> entries]
NoValue == [kind |-> "none", text |-> "", entries |-> <<>>]

Returns(v) == [kind |-> "return", value |-> v, exc |-> ""]
Raises(e) == [kind |-> "raise", value |-> NoValue, exc |-> e]

TryBodyNoEmptyCheckBug(outcome) ==
    IF outcome.raised THEN Raises(outcome.exc)
    ELSE LET f == FormatLoop(outcome.raw, 1, <<>>) IN
         IF f.raised THEN Raises(f.exc)
         ELSE IF f.results = <<>> THEN Returns(Sentinel(NO_VALID_RESULTS))
         ELSE Returns(Block(f.results))

TryBodyRetriesEmptyBug(outcome) ==
    IF outcome.raised THEN Raises(outcome.exc)
    ELSE IF outcome.raw = <<>> THEN Raises("ProviderError")
    ELSE LET f == FormatLoop(outcome.raw, 1, <<>>) IN
         IF f.raised THEN Raises(f.exc)
         ELSE IF f.results = <<>> THEN Returns(Sentinel(NO_VALID_RESULTS))
         ELSE Returns(Block(f.results))

\* the body of the try statement, given what the provider call did
TryBody(outcome) ==
    IF outcome.raised THEN Raises(outcome.exc)
    ELSE IF outcome.raw = <<>> THEN Returns(Sentinel(NO_RESULTS))
    ELSE LET f == FormatLoop(outcome.raw, 1, <<>>) IN
         IF f.raised THEN Raises(f.exc)
         ELSE IF f.results = <<>> THEN Returns(Sentinel(NO_VALID_RESULTS))
         ELSE Returns(Block(f.results))

\* the exception classes an attempt can raise; all derive from Exception
ExceptionSubclasses == {"ProviderError", "AttributeError"}

CatchesProviderOnlyBug(exc) == exc = "ProviderError"

\* except Exception as e:
Catches(exc) == exc \in ExceptionSubclasses

HasRetryLeftOffByOneBug(a) == a < max_retries

\* if attempt < max_retries - 1:
HasRetryLeft(a) == a < max_retries - 1

SleepTimeAfterDoublingBug(b) == Min(b * 2, max_backoff)

\* sleep_time = min(backoff, max_backoff)
SleepTime(b) == Min(b, max_backoff)

NextBackoffNoDoublingBug(b) == b

\* backoff *= 2
NextBackoff(b) == b * 2

\* what one provider call can do: raise, or return up to mr raw records
ProviderOutcomes(Recs, mr) ==
    {[raised |-> TRUE, exc |-> "ProviderError", raw |-> <<>>]}
    \cup {[raised |-> FALSE, exc |-> "", raw |-> s] : s \in SeqUpTo(Recs, mr)}

\* no provider call made in the iteration yet
NoOutcome == [raised |-> FALSE, exc |-> "no call", raw |-> <<>>]

SearchIdle ==
    /\ pc = [c \in Threads |-> "idle"]
    /\ search_type = [c \in Threads |-> "general"]
    /\ max_results = [c \in Threads |-> 1]
    /\ attempt = [c \in Threads |-> 0]
    /\ backoff = [c \in Threads |-> initial_backoff]
    /\ sleep_time = [c \in Threads |-> 0]
    /\ result = [c \in Threads |-> NoValue]
    /\ raw_results = [c \in Threads |-> <<>>]
    /\ providerCalls = [c \in Threads |-> 0]
    /\ method = [c \in Threads |-> "none"]
    /\ failures = [c \in Threads |-> 0]
    /\ caught = [c \in Threads |-> {}]
    /\ provided = [c \in Threads |-> NoOutcome]
    /\ waits = [c \in Threads |-> <<>>]

CallSharedBackoffBug(c, st, mr) ==
    /\ pc[c] = "idle"
    /\ pc' = [pc EXCEPT ![c] = "try"]
    /\ search_type' = [search_type EXCEPT ![c] = st]
    /\ max_results' = [max_results EXCEPT ![c] = mr]
    /\ attempt' = [attempt EXCEPT ![c] = 0]
    /\ backoff' = [backoff EXCEPT ![c] =
                       CHOOSE b \in {backoff[d] : d \in Threads} :
                           \A d \in Threads : backoff[d] <= b]
    /\ sleep_time' = [sleep_time EXCEPT ![c] = 0]
    /\ result' = [result EXCEPT ![c] = NoValue]
    /\ raw_results' = [raw_results EXCEPT ![c] = <<>>]
    /\ providerCalls' = [providerCalls EXCEPT ![c] = 0]
    /\ method' = [method EXCEPT ![c] = "none"]
    /\ failures' = [failures EXCEPT ![c] = 0]
    /\ caught' = [caught EXCEPT ![c] = {}]
    /\ provided' = [provided EXCEPT ![c] = NoOutcome]
    /\ waits' = [waits EXCEPT ![c] = <<>>]
    /\ UNCHANGED apiVars

\* a caller enters internet_search(query, max_results, search_type)
Call(c, st, mr) ==
    /\ pc[c] = "idle"
    /\ pc' = [pc EXCEPT ![c] = "try"]
    /\ search_type' = [search_type EXCEPT ![c] = st]
    /\ max_results' = [max_results EXCEPT ![c] = mr]
    /\ attempt' = [attempt EXCEPT ![c] = 0]
    /\ backoff' = [backoff EXCEPT ![c] = initial_backoff]
    /\ sleep_time' = [sleep_time EXCEPT ![c] = 0]
    /\ result' = [result EXCEPT ![c] = NoValue]
    /\ raw_results' = [raw_results EXCEPT ![c] = <<>>]
    /\ providerCalls' = [providerCalls EXCEPT ![c] = 0]
    /\ method' = [method EXCEPT ![c] = "none"]
    /\ failures' = [failures EXCEPT ![c] = 0]
    /\ caught' = [caught EXCEPT ![c] = {}]
    /\ provided' = [provided EXCEPT ![c] = NoOutcome]
    /\ waits' = [waits EXCEPT ![c] = <<>>]
    /\ UNCHANGED apiVars

\* one iteration of the for loop up to its return, its raise or its time.sleep
Attempt(c, outcome) ==
    /\ pc[c] = "try"
    /\ providerCalls' = [providerCalls EXCEPT ![c] = @ + 1]
    /\ method' = [method EXCEPT ![c] = IF search_type[c] = "news" THEN "news" ELSE "text"]
    /\ provided' = [provided EXCEPT ![c] = outcome]
    /\ LET body == TryBody(outcome) IN
       IF body.kind = "return"
       THEN /\ pc' = [pc EXCEPT ![c] = "done"]
            /\ result' = [result EXCEPT ![c] = body.value]
            /\ raw_results' = [raw_results EXCEPT ![c] = outcome.raw]
            /\ UNCHANGED <<failures, caught, sleep_time>>
       ELSE IF ~Catches(body.exc)
       THEN /\ pc' = [pc EXCEPT ![c] = "raised"]
            /\ UNCHANGED <<result, raw_results, failures, caught, sleep_time>>
       ELSE /\ failures' = [failures EXCEPT ![c] = @ + 1]
            /\ caught' = [caught EXCEPT ![c] = @ \cup {body.exc}]
            /\ UNCHANGED raw_results
            /\ IF HasRetryLeft(attempt[c])
               THEN /\ sleep_time' = [sleep_time EXCEPT ![c] = SleepTime(backoff[c])]
                    /\ pc' = [pc EXCEPT ![c] = "sleep"]
                    /\ UNCHANGED result
               ELSE /\ result' = [result EXCEPT ![c] = Sentinel(ExhaustedError(max_retries))]
                    /\ pc' = [pc EXCEPT ![c] = "done"]
                    /\ UNCHANGED sleep_time
    /\ UNCHANGED <<search_type, max_results, attempt, backoff, waits>>
    /\ UNCHANGED apiVars

\* time.sleep(sleep_time) returns; backoff *= 2; the for loop advances
Wake(c) ==
    /\ pc[c] = "sleep"
    /\ waits' = [waits EXCEPT ![c] = Append(@, sleep_time[c])]
    /\ backoff' = [backoff EXCEPT ![c] = NextBackoff(@)]
    /\ attempt' = [attempt EXCEPT ![c] = @ + 1]
    /\ IF attempt[c] + 1 < max_retries
       THEN /\ pc' = [pc EXCEPT ![c] = "try"]
            /\ UNCHANGED result
       ELSE /\ pc' = [pc EXCEPT ![c] = "done"]
            /\ result' = [result EXCEPT ![c] = Sentinel(FALLTHROUGH)]
    /\ provided' = [provided EXCEPT ![c] = NoOutcome]
    /\ UNCHANGED <<search_type, max_results, sleep_time, raw_results,
                   providerCalls, method, failures, caught>>
    /\ UNCHANGED apiVars

\* the caller takes the value (or the exception); the activation is gone
Finish(c) ==
    /\ pc[c] \in {"done", "raised"}
    /\ pc' = [pc EXCEPT ![c] = "idle"]
    /\ search_type' = [search_type EXCEPT ![c] = "general"]
    /\ max_results' = [max_results EXCEPT ![c] = 1]
    /\ attempt' = [attempt EXCEPT ![c] = 0]
    /\ backoff' = [backoff EXCEPT ![c] = initial_backoff]
    /\ sleep_time' = [sleep_time EXCEPT ![c] = 0]
    /\ result' = [result EXCEPT ![c] = NoValue]
    /\ raw_results' = [raw_results EXCEPT ![c] = <<>>]
    /\ providerCalls' = [providerCalls EXCEPT ![c] = 0]
    /\ method' = [method EXCEPT ![c] = "none"]
    /\ failures' = [failures EXCEPT ![c] = 0]
    /\ caught' = [caught EXCEPT ![c] = {}]
    /\ provided' = [provided EXCEPT ![c] = NoOutcome]
    /\ waits' = [waits EXCEPT ![c] = <<>>]
    /\ UNCHANGED apiVars

\* ===================================================================
\* Agent specification files and their loader.  script.py of this tree
\* does not hold load_agent_specs / parse_agent_spec (api_server.py imports
\* them from it); they are modelled from the design document, section 4.2.
\* ===================================================================
MaxFiles == 3

\* a *.md document: whether it starts with the --- delimiter, how many
\* segments splitting on the delimiter yields, what the metadata block
\* parses to, and the lines after the metadata block
Doc(file, delim, segs, kind, meta, body) ==
    [file |-> file, starts_with_delim |-> delim, segments |-> segs,
     meta_kind |-> kind, fields |-> meta, body |-> body]

ResearchDoc == Doc("research.md", TRUE, 3, "mapping",
                   [name |-> "research", title |-> "Research",
                    description |-> "Market research", enabled |-> TRUE],
                   <<"# System Prompt", "You research.">>)
FinanceDoc  == Doc("finance.md", TRUE, 3, "mapping",
                   [name |-> "finance", title |-> "Finance", enabled |-> FALSE],
                   <<"# System Prompt", "You count.">>)
WriterDoc   == Doc("writer.md", TRUE, 3, "mapping",
                   [name |-> "writer", title |-> "Writer"],
                   <<"You write.">>)
NoDelimDoc  == Doc("nodelim.md", FALSE, 1, "mapping", [name |-> "nodelim"], <<"x">>)
UnclosedDoc == Doc("unclosed.md", TRUE, 2, "mapping", [name |-> "unclosed"], <<>>)
BadYamlDoc  == Doc("badyaml.md", TRUE, 3, "unparseable", <<>>, <<"x">>)
ScalarDoc   == Doc("scalar.md", TRUE, 3, "scalar", <<>>, <<"x">>)

Docs == {ResearchDoc, FinanceDoc, WriterDoc, NoDelimDoc, UnclosedDoc, BadYamlDoc,
         ScalarDoc}

\* directory listings: distinct files, in any order
Listings == {s \in SeqUpTo(Docs, MaxFiles) :
                \A i, j \in 1..Len(s) : i /= j => s[i] /= s[j]}

Directories == {[exists |-> FALSE, files |-> <<>>]}
               \cup {[exists |-> TRUE, files |-> l] : l \in Listings}

FormatError(d) == [ok |-> FALSE, file |-> d.file, spec |-> <<>>]

StripHeader(body) ==
    IF body /= <<>> /\ Head(body) = "# System Prompt" THEN Tail(body) ELSE body

\* parseAgentSpec
parse_agent_spec(d) ==
    IF ~d.starts_with_delim \/ d.segments < 3 THEN FormatError(d)
    ELSE IF d.meta_kind /= "mapping" THEN FormatError(d)
    ELSE [ok |-> TRUE, file |-> d.file,
          spec |-> [name |-> Get(d, "name", Null),
                    title |-> Get(d, "title", Null),
                    description |-> Get(d, "description", Null),
                    enabled |-> Get(d, "enabled", TRUE),
                    system_prompt |-> StripHeader(d.body)]]

Loaded(specs, diags, raised) == [specs |-> specs, diagnostics |-> diags, raised |-> raised]

RECURSIVE LoadLoopAbortsBug(_, _, _, _)
LoadLoopAbortsBug(files, i, specs, diags) ==
    IF i > Len(files) THEN Loaded(specs, diags, FALSE)
    ELSE LET p == parse_agent_spec(files[i]) IN
         IF ~p.ok THEN Loaded(<<>>, Append(diags, p.file), TRUE)
         ELSE LoadLoopAbortsBug(files, i + 1,
                  IF p.spec.enabled THEN Append(specs, p.spec) ELSE specs, diags)

\* loadAgentSpecs, steps 2-4: parse each file, skip and report a failure,
\* keep the enabled specs
RECURSIVE LoadLoop(_, _, _, _)
LoadLoop(files, i, specs, diags) ==
    IF i > Len(files) THEN Loaded(specs, diags, FALSE)
    ELSE LET p == parse_agent_spec(files[i]) IN
         IF ~p.ok THEN LoadLoop(files, i + 1, specs, Append(diags, p.file))
         ELSE LoadLoop(files, i + 1,
                  IF p.spec.enabled THEN Append(specs, p.spec) ELSE specs, diags)

\* loadAgentSpecs
load_agent_specs(dir) ==
    IF ~dir.exists THEN Loaded(<<>>, <<"agents directory not found">>, FALSE)
    ELSE LoadLoop(dir.files, 1, <<>>, <<>>)

\* ===================================================================
\* api_server.py
\* ===================================================================
NoResponse == [endpoint |-> "none", status |-> 0, error |-> "", agents |-> <<>>,
               agent_used |-> ""]
Response(ep, st, err, ags, used) ==
    [endpoint |-> ep, status |-> st, error |-> err, agents |-> ags,
     agent_used |-> used]

\* message, the agent argument as sent, and the local agent_name
NoRequest == [message |-> Null, arg |-> Null, agent |-> Null]

Messages == {Null, "", "hello"}
AgentNames == {Null, "", "research", "finance", "writer", "ghost"}

\* next((s for s in specs if s['name'] == agent_name), None)
RECURSIVE FindSpec(_, _, _)
FindSpec(specs, agent_name, i) ==
    IF i > Len(specs) THEN [found |-> FALSE, spec |-> <<>>]
    ELSE IF specs[i].name = agent_name THEN [found |-> TRUE, spec |-> specs[i]]
    ELSE FindSpec(specs, agent_name, i + 1)

NotFoundText(agent_name) == "Agent " \o agent_name \o " not found"

\* agent_name or 'orchestrator'
AgentUsed(agent_name) == IF Truthy(agent_name) THEN agent_name ELSE "orchestrator"

ApiIdle ==
    /\ handler = "none"
    /\ http = NoResponse
    /\ diagnostics = <<>>
    /\ request = NoRequest
    /\ created = Null
    /\ invoked = FALSE
    /\ gpc = "idle"
    /\ frames = <<>>

\* a request arrives only when no other is being served: the handlers share
\* no state, so serving them one at a time loses no behaviour
Accepting == handler = "none"

\* GET /api/agents
get_agents ==
    /\ Accepting
    /\ LET l == load_agent_specs(agents_dir) IN
       /\ diagnostics' = l.diagnostics
       /\ http' = IF l.raised
                  THEN Response("agents", 500, "load failed", <<>>, "")
                  ELSE Response("agents", 200, "",
                           [i \in 1..Len(l.specs) |->
                               [name |-> l.specs[i].name, title |-> l.specs[i].title,
                                description |-> l.specs[i].description,
                                enabled |-> l.specs[i].enabled]], "")
    /\ handler' = "agents"
    /\ request' = NoRequest
    /\ created' = Null
    /\ invoked' = FALSE
    /\ UNCHANGED <<agents_dir, gpc, frames>>
    /\ UNCHANGED searchVars

ChatSelectSkipsLookupBug(message, agent_name, createOk, invokeOk) ==
    LET who == AgentUsed(agent_name) IN
    IF ~Truthy(message)
    THEN [resp |-> Response("chat", 400, "Message is required", <<>>, ""),
          diags |-> <<>>, created |-> Null, invoked |-> FALSE]
    ELSE IF ~createOk
    THEN [resp |-> Response("chat", 500, "create failed", <<>>, ""),
          diags |-> <<>>, created |-> Null, invoked |-> FALSE]
    ELSE IF ~invokeOk
    THEN [resp |-> Response("chat", 500, "invoke failed", <<>>, ""),
          diags |-> <<>>, created |-> who, invoked |-> TRUE]
    ELSE [resp |-> Response("chat", 200, "", <<>>, who),
          diags |-> <<>>, created |-> who, invoked |-> TRUE]

\* the body of chat() for a request whose body is a JSON object: what it
\* answers, which agent it builds and whether it invokes it; createOk /
\* invokeOk say whether create_* and agent.invoke return or raise
ChatBody(message, agent_name, createOk, invokeOk) ==
    LET l == IF Truthy(agent_name) THEN load_agent_specs(agents_dir)
             ELSE Loaded(<<>>, <<>>, FALSE)
        f == FindSpec(l.specs, agent_name, 1)
        who == AgentUsed(agent_name)
    IN
    IF ~Truthy(message)
    THEN [resp |-> Response("chat", 400, "Message is required", <<>>, ""),
          diags |-> <<>>, created |-> Null, invoked |-> FALSE]
    ELSE IF Truthy(agent_name) /\ l.raised
    THEN [resp |-> Response("chat", 500, "load failed", <<>>, ""),
          diags |-> l.diagnostics, created |-> Null, invoked |-> FALSE]
    ELSE IF Truthy(agent_name) /\ ~f.found
    THEN [resp |-> Response("chat", 404, NotFoundText(agent_name), <<>>, ""),
          diags |-> l.diagnostics, created |-> Null, invoked |-> FALSE]
    ELSE IF ~createOk
    THEN [resp |-> Response("chat", 500, "create failed", <<>>, ""),
          diags |-> l.diagnostics, created |-> Null, invoked |-> FALSE]
    ELSE IF ~invokeOk
    THEN [resp |-> Response("chat", 500, "invoke failed", <<>>, ""),
          diags |-> l.diagnostics, created |-> who, invoked |-> TRUE]
    ELSE [resp |-> Response("chat", 200, "", <<>>, who),
          diags |-> l.diagnostics, created |-> who, invoked |-> TRUE]

\* POST /api/chat
chat(message, agent_name, createOk, invokeOk) ==
    /\ Accepting
    /\ LET b == ChatBody(message, agent_name, createOk, invokeOk) IN
       /\ http' = b.resp
       /\ diagnostics' = b.diags
       /\ created' = b.created
       /\ invoked' = b.invoked
    /\ handler' = "chat"
    /\ request' = [message |-> message, arg |-> agent_name, agent |-> agent_name]
    /\ UNCHANGED <<agents_dir, gpc, frames>>
    /\ UNCHANGED searchVars

\* the response of a synchronous handler has gone out; its locals are gone
Responded ==
    /\ handler \in {"agents", "chat"}
    /\ handler' = "none"
    /\ http' = NoResponse
    /\ diagnostics' = <<>>
    /\ request' = NoRequest
    /\ created' = Null
    /\ invoked' = FALSE
    /\ UNCHANGED <<agents_dir, gpc, frames>>
    /\ UNCHANGED searchVars

\* ---- GET /api/chat/stream: generate(), one action per resumption ----
StatusFrame(text) == [type |-> "status", message |-> text]

\* first resumption: read the arguments, yield the first frame
generate_start(message, agent_arg) ==
    /\ Accepting
    /\ handler' = "stream"
    /\ request' = [message |-> message, arg |-> agent_arg,
                   agent |-> IF agent_arg = "" THEN Null ELSE agent_arg]
    /\ created' = Null
    /\ invoked' = FALSE
    /\ diagnostics' = <<>>
    /\ IF ~Truthy(message)
       THEN /\ frames' = <<[error |-> "Message is required"]>>
            /\ gpc' = "rejected"
       ELSE /\ frames' = <<StatusFrame("Initializing agent...")>>
            /\ gpc' = "initializing"
    /\ UNCHANGED <<agents_dir, http>>
    /\ UNCHANGED searchVars

\* if agent_name: ... else: ...  up to the yield that follows
Select(agent_name) ==
    IF Truthy(agent_name)
    THEN LET l == load_agent_specs(agents_dir)
             f == FindSpec(l.specs, agent_name, 1)
         IN IF f.found
            THEN [found |-> TRUE, diags |-> l.diagnostics,
                  frame |-> StatusFrame("Creating " \o f.spec.title \o "...")]
            ELSE [found |-> FALSE, diags |-> l.diagnostics,
                  frame |-> [error |-> NotFoundText(agent_name)]]
    ELSE [found |-> TRUE, diags |-> <<>>,
          frame |-> StatusFrame("Creating orchestrator...")]

\* second resumption: time.sleep(0.1), pick the agent, yield
generate_select ==
    /\ gpc = "initializing"
    /\ LET s == Select(request.agent) IN
       /\ frames' = Append(frames, s.frame)
       /\ diagnostics' = s.diags
       /\ gpc' = IF s.found THEN "creating" ELSE "not_found"
    /\ UNCHANGED <<agents_dir, handler, http, request, created, invoked>>
    /\ UNCHANGED searchVars

generate_createGoesOnAfterErrorBug(createOk) ==
    /\ gpc = "creating"
    /\ IF createOk
       THEN /\ created' = AgentUsed(request.agent)
            /\ frames' = Append(frames, StatusFrame("Agent is thinking and planning..."))
       ELSE /\ frames' = Append(frames, [type |-> "error", error |-> "create failed"])
            /\ UNCHANGED created
    /\ gpc' = "thinking"
    /\ UNCHANGED <<agents_dir, handler, http, diagnostics, request, invoked>>
    /\ UNCHANGED searchVars

\* third resumption: create the agent, yield the thinking status
generate_create(createOk) ==
    /\ gpc = "creating"
    /\ IF createOk
       THEN /\ created' = AgentUsed(request.agent)
            /\ frames' = Append(frames, StatusFrame("Agent is thinking and planning..."))
            /\ gpc' = "thinking"
       ELSE /\ frames' = Append(frames, [type |-> "error", error |-> "create failed"])
            /\ gpc' = "failed"
            /\ UNCHANGED created
    /\ UNCHANGED <<agents_dir, handler, http, diagnostics, request, invoked>>
    /\ UNCHANGED searchVars

\* fourth resumption: invoke the agent, yield the response
generate_invoke(invokeOk) ==
    /\ gpc = "thinking"
    /\ invoked' = TRUE
    /\ IF invokeOk
       THEN /\ frames' = Append(frames, [type |-> "response", response |-> "text",
                                        agent_used |-> AgentUsed(request.agent)])
            /\ gpc' = "responded"
       ELSE /\ frames' = Append(frames, [type |-> "error", error |-> "invoke failed"])
            /\ gpc' = "failed"
    /\ UNCHANGED <<agents_dir, handler, http, diagnostics, request, created>>
    /\ UNCHANGED searchVars

\* last resumption: the generator returns (or the client has gone away and
\* the generator is closed at the yield it is suspended at)
generate_end ==
    /\ gpc \in {"rejected", "not_found", "failed", "responded", "initializing",
                "creating", "thinking"}
    /\ gpc' = "idle"
    /\ handler' = "none"
    /\ frames' = <<>>
    /\ diagnostics' = <<>>
    /\ request' = NoRequest
    /\ created' = Null
    /\ invoked' = FALSE
    /\ UNCHANGED <<agents_dir, http>>
    /\ UNCHANGED searchVars

SearchTypes == {"general", "news"}

\* ---- one caller, every shape of provider answer ----
Init ==
    /\ SearchIdle
    /\ ApiIdle
    /\ agents_dir = [exists |-> FALSE, files |-> <<>>]

Next ==
    \/ \E st \in SearchTypes, mr \in 1..MaxResults : Call(1, st, mr)
    \/ \E o \in ProviderOutcomes(RawRecords, max_results[1]) : Attempt(1, o)
    \/ Wake(1)
    \/ Finish(1)

Spec == Init /\ [][Next]_vars

\* ---- concurrent callers, a few provider answers ----
FewRecords == {TextHit, NotAMapping}

NextConcurrent ==
    \E c \in Threads :
        \/ \E st \in SearchTypes : Call(c, st, 1)
        \/ \E o \in ProviderOutcomes(FewRecords, max_results[c]) : Attempt(c, o)
        \/ Wake(c)
        \/ Finish(c)

SpecConcurrent == Init /\ [][NextConcurrent]_vars

\* ---- the API server over every agents directory ----
InitApi ==
    /\ SearchIdle
    /\ ApiIdle
    /\ agents_dir \in Directories

NextApi ==
    \/ get_agents
    \/ \E m \in Messages, a \in AgentNames, co \in BOOLEAN, io \in BOOLEAN : chat(m, a, co, io)
    \/ Responded
    \/ \E m \in Messages, a \in AgentNames : generate_start(m, a)
    \/ generate_select
    \/ \E co \in BOOLEAN : generate_create(co)
    \/ \E io \in BOOLEAN : generate_invoke(io)
    \/ generate_end

SpecApi == InitApi /\ [][NextApi]_vars

\* ===================================================================
\* Properties
\* ===================================================================
Last(s) == s[Len(s)]

\* the call of thread c has returned
Returned(c) == pc[c] = "done"

\* the call of thread c returned from an attempt whose provider call and
\* formatting did not fail
Answered(c) == Returned(c) /\ failures[c] < providerCalls[c]

\* C1: internet_search never raises to its caller: whatever the provider
\* does on each attempt (raise, answer nothing, answer records, answer
\* records on which formatting fails), no exception leaves the call, and a
\* call that has ended holds a string as its value.
C1_NeverRaises ==
    \A c \in Threads :
        /\ pc[c] /= "raised"
        /\ Returned(c) => result[c].kind \in {"sentinel", "block"}

\* a call that returned a block after a provider error and a formatting error
C1_Witness ==
    /\ Returned(1)
    /\ caught[1] = {"ProviderError", "AttributeError"}
    /\ result[1].kind = "block"

\* C2: one call makes at most 5 provider calls, and when all 5 attempts
\* fail the call returns "Error: Could not complete search after 5
\* attempts." and no other string.
C2_AtMostFiveAttempts ==
    \A c \in Threads :
        /\ providerCalls[c] <= 5
        /\ failures[c] <= 5
        /\ (Returned(c) /\ failures[c] = 5) =>
               result[c] = Sentinel("Error: Could not complete search after 5 attempts.")

\* a call that ended after 5 provider calls, all failed
C2_Witness ==
    /\ Returned(1)
    /\ providerCalls[1] = 5
    /\ failures[1] = 5
    /\ result[1].kind = "sentinel"

\* C3: when all 5 attempts of a call fail, the waits slept during the call
\* add up to at least 1+2+4+8 = 15 and at most 5*60 = 300 time-units.
C3_TotalWaitBounds ==
    \A c \in Threads :
        (Returned(c) /\ failures[c] = 5) =>
            /\ SumSeq(waits[c]) >= 1 + 2 + 4 + 8
            /\ SumSeq(waits[c]) <= 5 * 60

\* a call whose 5 attempts failed, at least one of them in formatting, and
\* that slept
C3_Witness ==
    /\ Returned(1)
    /\ failures[1] = 5
    /\ "AttributeError" \in caught[1]
    /\ SumSeq(waits[1]) > 0

\* C4 as stated: a call in which every attempt fails sleeps
\* 1+2+4+8+16 = 31 time-units in total.
C4_Original_WorstCase31 ==
    \A c \in Threads :
        (Returned(c) /\ failures[c] = 5) => SumSeq(waits[c]) = 1 + 2 + 4 + 8 + 16

\* C4 amended: a call in which every attempt fails sleeps before each of
\* its 4 retries and not after the last attempt: the waits are 1, 2, 4, 8,
\* that is 15 time-units in total (the sum of min(2^k, 60) for k = 0..3),
\* and no call sleeps more than that.
C4_WorstCase15 ==
    \A c \in Threads :
        /\ SumSeq(waits[c]) <= 15
        /\ (Returned(c) /\ failures[c] = 5) => waits[c] = <<1, 2, 4, 8>>

\* a call whose 5 attempts all failed on the provider, with its 4 waits done
C4_Witness ==
    /\ Returned(1)
    /\ failures[1] = 5
    /\ caught[1] = {"ProviderError"}
    /\ Len(waits[1]) = 4

\* the raw records of an answer that carry both a title and a link
WithTitleAndLink(raw) ==
    SelectSeq(raw, LAMBDA r : Truthy(title_of(r)) /\ Truthy(url_of(r)))

\* C5 (as stated): for an answer of N raw records of which M carry both a
\* title and a link, the call returns exactly M entries, in the records'
\* original relative order, and the entries carry the numbers 1..M.
C5_NumberedOneToM ==
    \A c \in Threads :
        (Answered(c) /\ result[c].kind = "block") =>
            LET kept == WithTitleAndLink(raw_results[c])
                entries == result[c].entries
            IN /\ Len(entries) = Len(kept)
               /\ \A k \in 1..Len(entries) :
                      /\ entries[k].title = title_of(kept[k])
                      /\ entries[k].url = url_of(kept[k])
                      /\ entries[k].num = k

\* C6: an answer of zero raw records gives the "no results" sentinel; an
\* answer of one or more records none of which has both a title and a link
\* gives the "no valid results" sentinel; the two sentinels differ and
\* neither is the string returned when the retries are exhausted.
C6_Sentinels ==
    /\ NO_RESULTS /= NO_VALID_RESULTS
    /\ ExhaustedError(max_retries) \notin {NO_RESULTS, NO_VALID_RESULTS}
    /\ \A c \in Threads :
           Answered(c) =>
               /\ raw_results[c] = <<>> => result[c] = Sentinel(NO_RESULTS)
               /\ (raw_results[c] /= <<>> /\ WithTitleAndLink(raw_results[c]) = <<>>)
                      => result[c] = Sentinel(NO_VALID_RESULTS)
               /\ result[c].kind = "sentinel"
                      => (raw_results[c] = <<>> \/ WithTitleAndLink(raw_results[c]) = <<>>)
               /\ result[c] /= Sentinel(ExhaustedError(max_retries))

\* a call answered, on a retry, with two records that are both filtered out
C6_Witness ==
    /\ Answered(1)
    /\ failures[1] > 0
    /\ raw_results[1] = <<TitleOnly, LinkOnly>>
    /\ result[1] = Sentinel(NO_VALID_RESULTS)

\* the record at position i of the answer is rendered in the block
Rendered(c, i) == \E k \in 1..Len(result[c].entries) : result[c].entries[k].num = i

\* C7 as stated: the records dropped are those where both title and link
\* are absent; every other record, one with a title but no link or a link
\* but no title included, is rendered.
C7_Original_DropsOnlyWhenBothAbsent ==
    \A c \in Threads :
        Answered(c) =>
            \A i \in 1..Len(raw_results[c]) :
                Rendered(c, i) <=>
                    (Truthy(title_of(raw_results[c][i])) \/ Truthy(url_of(raw_results[c][i])))

\* C7 amended: the records dropped are those where the title or the link
\* is absent (or empty); every record that has both is rendered, with its
\* title and its link.
C7_DropsWhenEitherAbsent ==
    \A c \in Threads :
        Answered(c) =>
            \A i \in 1..Len(raw_results[c]) :
                LET r == raw_results[c][i] IN
                /\ Rendered(c, i) <=> (Truthy(title_of(r)) /\ Truthy(url_of(r)))
                /\ \A k \in 1..Len(result[c].entries) :
                       result[c].entries[k].num = i =>
                           /\ result[c].entries[k].title = title_of(r)
                           /\ result[c].entries[k].url = url_of(r)

\* an answer of a record with a title and no link, then a complete record:
\* only the second is rendered
C7_Witness ==
    /\ Answered(1)
    /\ raw_results[1] = <<TitleOnly, NewsHit>>
    /\ Len(result[1].entries) = 1

\* everything the activation of thread c holds
Locals(c) == <<pc[c], search_type[c], max_results[c], attempt[c], backoff[c],
               sleep_time[c], result[c], raw_results[c], providerCalls[c],
               method[c], failures[c], caught[c], provided[c], waits[c]>>

\* the step enters a new call in thread c
Enters(c) == pc[c] = "idle" /\ pc'[c] = "try"

\* C8: retry state is per call.  In every sequence and interleaving of
\* calls, a call starts with attempt 0, backoff 1.0 and no attempt used,
\* whatever the earlier call of the thread and the calls of the other
\* threads have reached; a step of one call leaves the state of every other
\* call as it was; and each call has its own budget of 5 attempts: it ends
\* with the exhausted-retries error exactly when 5 of its own attempts failed.
C8_RetryStatePerCall ==
    /\ [][\A c \in Threads :
              Enters(c) => /\ attempt'[c] = 0
                           /\ backoff'[c] = 1
                           /\ providerCalls'[c] = 0
                           /\ failures'[c] = 0
                           /\ waits'[c] = <<>>]_vars
    /\ [][\E c \in Threads : \A d \in Threads \ {c} : Locals(d)' = Locals(d)]_vars
    /\ [](\A c \in Threads :
              /\ providerCalls[c] <= 5
              /\ backoff[c] = 2 ^ Len(waits[c])
              /\ Returned(c) =>
                     (result[c] = Sentinel(ExhaustedError(5)) <=> failures[c] = 5))

\* thread 1 is on the first attempt of a call, with backoff 1, while the
\* call of thread 2 has failed three times and holds backoff 8
C8_Witness ==
    /\ pc[1] = "try"
    /\ attempt[1] = 0
    /\ backoff[1] = 1
    /\ pc[2] = "try"
    /\ failures[2] = 3
    /\ backoff[2] = 8

\* a document that parses: opening and closing delimiter, metadata a mapping
WellFormed(d) == d.starts_with_delim /\ d.segments >= 3 /\ d.meta_kind = "mapping"

\* a well-formed document whose enabled is true or left out
EnabledDoc(d) ==
    WellFormed(d) /\ ("enabled" \in DOMAIN d.fields => d.fields["enabled"] = TRUE)

MapSeq(s, Op(_)) == [i \in 1..Len(s) |-> Op(s[i])]
FileOf(d) == d.file
NameOf(d) == d.fields["name"]
NameOfAgent(a) == a.name

\* C9: over a directory holding any mix of enabled, disabled and malformed
\* files, load_agent_specs returns exactly the enabled well-formed specs, in
\* listing order: no disabled spec is returned, and each malformed file is
\* reported and skipped without aborting the load of the others.
C9_LoadsExactlyEnabled ==
    (handler = "agents" /\ agents_dir.exists) =>
        /\ http.status = 200
        /\ MapSeq(http.agents, NameOfAgent)
               = MapSeq(SelectSeq(agents_dir.files, EnabledDoc), NameOf)
        /\ \A i \in 1..Len(http.agents) : http.agents[i].enabled = TRUE
        /\ diagnostics
               = MapSeq(SelectSeq(agents_dir.files, LAMBDA d : ~WellFormed(d)), FileOf)

\* the agents of a directory that lists a malformed file, then a disabled
\* spec, then an enabled one
C9_Witness ==
    /\ handler = "agents"
    /\ agents_dir.files = <<BadYamlDoc, FinanceDoc, ResearchDoc>>
    /\ Len(http.agents) = 1
    /\ diagnostics = <<"badyaml.md">>

\* the names of the specs load_agent_specs returns for the agents directory
LoadedNames ==
    LET l == load_agent_specs(agents_dir) IN {l.specs[i].name : i \in 1..Len(l.specs)}

\* the request names an agent that is not among the loaded specs
NamesUnknownAgent == Truthy(request.arg) /\ request.arg \notin LoadedNames

\* the generator is suspended at, or has passed, the yield of its second frame
PastSelect == gpc \in {"not_found", "creating", "thinking", "responded", "failed"}

\* what C10 says of a request, given that the request is one it speaks of
C10_Outcome ==
    /\ (handler = "chat" /\ NamesUnknownAgent) =>
           /\ http.status = 404
           /\ http.error = "Agent " \o request.arg \o " not found"
           /\ created = Null
           /\ ~invoked
    /\ (handler = "stream" /\ NamesUnknownAgent) =>
           /\ created = Null
           /\ ~invoked
           /\ PastSelect =>
                  /\ gpc = "not_found"
                  /\ Last(frames) = [error |-> "Agent " \o request.arg \o " not found"]
    /\ (handler = "chat" /\ ~Truthy(request.arg)) =>
           /\ http.status /= 404
           /\ created \in {Null, "orchestrator"}
           /\ http.status = 200 =>
                  created = "orchestrator" /\ invoked /\ http.agent_used = "orchestrator"
    /\ (handler = "stream" /\ ~Truthy(request.arg)) =>
           /\ gpc /= "not_found"
           /\ created \in {Null, "orchestrator"}
           /\ PastSelect => frames[2] = StatusFrame("Creating orchestrator...")
           /\ gpc \in {"thinking", "responded"} => created = "orchestrator"
           /\ gpc = "responded" => Last(frames).agent_used = "orchestrator"

\* C10 as stated: a chat request (POST /api/chat or GET /api/chat/stream)
\* that names an agent not among the loaded specs is answered "not found"
\* (404, or an 'Agent <name> not found' frame) and no agent is created or
\* invoked for it; a request with no agent name, or an empty one, uses the
\* main orchestrator.
C10_Original_UnknownAgentNotFound ==
    /\ C10_Outcome
    /\ (handler = "stream" /\ NamesUnknownAgent) => gpc /= "rejected"
    /\ (handler = "stream" /\ ~Truthy(request.arg)) => gpc /= "rejected"

\* C10 amended: the same, for the requests that carry a non-empty message
\* (a request without one is answered 'Message is required' -- 400, or an
\* error frame -- before the agent name is looked at).
C10_UnknownAgentNotFound ==
    Truthy(request.message) => C10_Outcome

\* a stream that was asked for an unknown agent and has yielded the
\* not-found frame as its second frame
C10_Witness ==
    /\ handler = "stream"
    /\ request.arg = "ghost"
    /\ agents_dir.files = <<ResearchDoc, FinanceDoc>>
    /\ gpc = "not_found"
    /\ Len(frames) = 2

\* C11 (as stated): every frame the streaming endpoint emits, on every
\* path (missing message, unknown agent, failure of agent creation or
\* invocation, success), is an object with a type field whose value is
\* status, response or error.
C11_EveryFrameTyped ==
    \A k \in 1..Len(frames) :
        /\ "type" \in DOMAIN frames[k]
        /\ frames[k]["type"] \in {"status", "response", "error"}

\* C12: within one call the backoff starts at 1.0 and doubles after every
\* failed attempt that is followed by a retry; the wait slept before the
\* k-th retry (k = 1..4) is min(backoff, 60.0) = min(2^(k-1), 60); no wait
\* exceeds 60.0; and no wait is slept after the final failed attempt or
\* after a successful attempt.
C12_BackoffSchedule ==
    \A c \in Threads :
        /\ Len(waits[c]) <= 4
        /\ \A k \in 1..Len(waits[c]) :
               /\ waits[c][k] = Min(2 ^ (k - 1), 60)
               /\ waits[c][k] <= 60
        /\ backoff[c] = 2 ^ Len(waits[c])
        /\ pc[c] = "try" => Len(waits[c]) = failures[c]
        /\ pc[c] = "sleep" =>
               /\ Len(waits[c]) = failures[c] - 1
               /\ sleep_time[c] = Min(backoff[c], 60)
        /\ Returned(c) =>
               Len(waits[c]) = IF failures[c] = 5 THEN 4 ELSE failures[c]

\* a call that failed four times, slept 1, 2, 4, 8 and was answered on its
\* fifth attempt
C12_Witness ==
    /\ Answered(1)
    /\ failures[1] = 4
    /\ waits[1] = <<1, 2, 4, 8>>
    /\ backoff[1] = 16

\* the value of the first of the aliases that the record holds populated,
\* "" when it holds none
FirstPopulated(r, aliases) ==
    LET hits == SelectSeq(aliases, LAMBDA a : Truthy(Get(r, a, ""))) IN
    IF hits = <<>> THEN "" ELSE Get(r, Head(hits), "")

\* C13 (as stated): normalization takes the first populated alias: the link
\* is 'href' when populated and 'url' otherwise, the snippet 'body' when
\* populated and 'description' otherwise; so every record with a title and
\* a populated link alias -- one whose 'href' is present but empty and whose
\* 'url' is populated included -- is kept and rendered with that link.
C13_FirstPopulatedAlias ==
    \A c \in Threads :
        Answered(c) =>
            \A i \in 1..Len(raw_results[c]) :
                LET r == raw_results[c][i]
                    link == FirstPopulated(r, <<"href", "url">>)
                    snip == FirstPopulated(r, <<"body", "description">>)
                IN (Truthy(title_of(r)) /\ Truthy(link)) =>
                       \E k \in 1..Len(result[c].entries) :
                           /\ result[c].entries[k].num = i
                           /\ result[c].entries[k].url = link
                           /\ result[c].entries[k].snippet = snip

IsResponseFrame(f) == "type" \in DOMAIN f /\ f["type"] = "response"

\* an error frame or a not-found frame
IsErrorFrame(f) == "error" \in DOMAIN f

\* the generator is running for a request with a non-empty message
Streaming == handler = "stream" /\ Truthy(request.message)

\* C15: in every run of the streaming generator with a non-empty message,
\* the first frame is the 'Initializing agent...' status; the agent is
\* invoked only after the 'Agent is thinking and planning...' status has
\* been emitted; at most one response frame is emitted and it is the last
\* frame; and after an error or not-found frame no further frame is emitted
\* and the agent is not invoked.
C15_StreamOrder ==
    /\ [](Streaming =>
              /\ frames /= <<>>
              /\ frames[1] = StatusFrame("Initializing agent...")
              /\ invoked =>
                     \E k \in 1..Len(frames) :
                         frames[k] = StatusFrame("Agent is thinking and planning...")
              /\ \A k \in 1..Len(frames) : IsResponseFrame(frames[k]) => k = Len(frames)
              /\ Cardinality({k \in 1..Len(frames) : IsResponseFrame(frames[k])}) <= 1)
    /\ [][(Streaming /\ invoked' /\ ~invoked) =>
              Last(frames) = StatusFrame("Agent is thinking and planning...")]_vars
    /\ [][(Streaming /\ (IsErrorFrame(Last(frames)) \/ IsResponseFrame(Last(frames)))) =>
              \/ frames' = frames /\ invoked' = invoked
              \/ handler' = "none" /\ gpc' = "idle"]_vars

\* a stream whose agent was created and invoked, and whose invocation
\* failed: four frames, the last an error frame
C15_Witness ==
    /\ Streaming
    /\ gpc = "failed"
    /\ invoked
    /\ Len(frames) = 4
    /\ IsErrorFrame(Last(frames))

\* the attempt fails: the provider call raises, or it answers a record on
\* which formatting raises
FailedAttempt(o) == o.raised \/ \E i \in 1..Len(o.raw) : ~o.raw[i].mapping

\* C14: the call returns on the first attempt that does not fail and makes
\* no provider call after it: only a failed attempt is followed by a wait
\* and a retry, so an empty answer or an answer whose records are all
\* filtered out is not retried; a call whose first attempt that does not
\* fail is attempt j has made exactly j provider calls and slept exactly
\* j-1 waits.
C14_ReturnsOnFirstSuccess ==
    /\ [](\A c \in Threads :
              /\ pc[c] = "sleep" => FailedAttempt(provided[c])
              /\ Returned(c) =>
                     IF FailedAttempt(provided[c])
                     THEN failures[c] = 5 /\ providerCalls[c] = 5
                     ELSE /\ providerCalls[c] = failures[c] + 1
                          /\ Len(waits[c]) = failures[c]
                          /\ raw_results[c] = provided[c].raw
                          /\ result[c].kind \in {"sentinel", "block"}
                          /\ result[c] /= Sentinel(ExhaustedError(5)))
    /\ [][\A c \in Threads :
              Returned(c) =>
                  /\ pc'[c] \in {"done", "idle"}
                  /\ pc'[c] = "done" =>
                         providerCalls'[c] = providerCalls[c] /\ waits'[c] = waits[c]]_vars

\* a call that failed twice and then was answered one record that the
\* filter drops: three provider calls, two waits, no further attempt
C14_Witness ==
    /\ Answered(1)
    /\ providerCalls[1] = 3
    /\ Len(waits[1]) = 2
    /\ raw_results[1] = <<TitleOnly>>
    /\ result[1] = Sentinel(NO_VALID_RESULTS)

====
